---------------------------- MODULE Spec2Model ----------------------------
(***************************************************************************)
(* dso-date-shifter (src/main.py): date-shaped substrings of text files    *)
(* are found with a regular expression, parsed with strptime, moved by a   *)
(* number of days and written back with strftime.                          *)
(*                                                                         *)
(* A text is a sequence of one-character strings.  A date format is a      *)
(* sequence of tokens: a directive ("%Y", "%y", "%m", "%d") or a literal   *)
(* character.  A regular expression is a sequence of alternatives, tried   *)
(* in order, each a sequence of character classes (sets of characters).    *)
(***************************************************************************)
EXTENDS Integers, Sequences, FiniteSets, TLC

None == "None"

Digits == {"0", "1", "2", "3", "4", "5", "6", "7", "8", "9"}
D19 == Digits \ {"0"}
DigitSeq == <<"0", "1", "2", "3", "4", "5", "6", "7", "8", "9">>

DigitVal(c) == (CHOOSE i \in 1..10 : DigitSeq[i] = c) - 1

\* int(s) of a string of decimal digits
RECURSIVE StrToNat(_)
StrToNat(s) ==
    IF s = <<>> THEN 0
    ELSE StrToNat(SubSeq(s, 1, Len(s) - 1)) * 10 + DigitVal(s[Len(s)])

\* str(n) for n >= 0
RECURSIVE NatToStr(_)
NatToStr(n) ==
    IF n < 10 THEN <<DigitSeq[n + 1]>>
    ELSE NatToStr(n \div 10) \o <<DigitSeq[(n % 10) + 1]>>

\* "%02d" % n
Pad2(n) == <<DigitSeq[((n \div 10) % 10) + 1], DigitSeq[(n % 10) + 1]>>

\* "%04d" % n
Pad4(n) == Pad2(n \div 100) \o Pad2(n % 100)

(***************************************************************************)
(* The proleptic Gregorian calendar of datetime: ordinals, day 1 is        *)
(* 0001-01-01 and the last day is 9999-12-31.                              *)
(***************************************************************************)
MINYEAR == 1
MAXYEAR == 9999

IsLeap(y) == y % 4 = 0 /\ (y % 100 # 0 \/ y % 400 = 0)

DaysInMonth(y, m) ==
    IF m = 2 THEN (IF IsLeap(y) THEN 29 ELSE 28)
    ELSE IF m \in {4, 6, 9, 11} THEN 30 ELSE 31

DaysBeforeYear(y) ==
    LET p == y - 1 IN p * 365 + p \div 4 - p \div 100 + p \div 400

DaysBeforeMonthTable == <<0, 31, 59, 90, 120, 151, 181, 212, 243, 273, 304, 334>>

DaysBeforeMonth(y, m) ==
    DaysBeforeMonthTable[m] + (IF m > 2 /\ IsLeap(y) THEN 1 ELSE 0)

Date(y, m, d) == [year |-> y, month |-> m, day |-> d]

\* date.toordinal()
ToOrdinal(dt) ==
    DaysBeforeYear(dt.year) + DaysBeforeMonth(dt.year, dt.month) + dt.day

MaxOrdinal == ToOrdinal(Date(MAXYEAR, 12, 31))

\* date.fromordinal(n), by the 400/100/4/1-year cycles
FromOrdinal(n) ==
    LET n0   == n - 1
        n400 == n0 \div 146097
        r400 == n0 % 146097
        n100 == r400 \div 36524
        r100 == r400 % 36524
        n4   == r100 \div 1461
        r4   == r100 % 1461
        n1   == r4 \div 365
        r1   == r4 % 365
        year == n400 * 400 + 1 + n100 * 100 + n4 * 4 + n1
    IN  IF n1 = 4 \/ n100 = 4 THEN Date(year - 1, 12, 31)
        ELSE LET leap  == n1 = 3 /\ (n4 # 24 \/ n100 = 3)
                 guess == (r1 + 50) \div 32
                 prec  == DaysBeforeMonthTable[guess]
                              + (IF guess > 2 /\ leap THEN 1 ELSE 0)
                 month == IF prec > r1 THEN guess - 1 ELSE guess
                 before == DaysBeforeMonthTable[month]
                              + (IF month > 2 /\ leap THEN 1 ELSE 0)
             IN  Date(year, month, r1 - before + 1)

ValidDate(dt) ==
    /\ dt.year \in MINYEAR..MAXYEAR
    /\ dt.month \in 1..12
    /\ dt.day \in 1..DaysInMonth(dt.year, dt.month)

(***************************************************************************)
(* Regular expressions                                                     *)
(***************************************************************************)
\* the classes of alt fit the characters of s from position i on
FitsAt(s, i, alt) ==
    /\ i + Len(alt) - 1 <= Len(s)
    /\ \A n \in 1..Len(alt) : s[i + n - 1] \in alt[n]

\* the regular expression strptime compiles for one token of a format
DirectiveAlts(tok) ==
    CASE tok = "%Y" -> << <<Digits, Digits, Digits, Digits>> >>
      [] tok = "%y" -> << <<Digits, Digits>> >>
      [] tok = "%m" -> << <<{"1"}, {"0", "1", "2"}>>, <<{"0"}, D19>>, <<D19>> >>
      [] tok = "%d" -> << <<{"3"}, {"0", "1"}>>, <<{"1", "2"}, Digits>>,
                          <<{"0"}, D19>>, <<D19>>, <<{" "}, D19>> >>
      [] OTHER      -> << <<{tok}>> >>

NoMatch == [ok |-> FALSE, end |-> 0, caps |-> <<>>]

\* re.match of the format's expression at position i, tokens j.. of fmt: ordered
\* alternation with backtracking; caps holds the text each token matched
RECURSIVE ReMatch(_, _, _, _), TryAlts(_, _, _, _, _)
ReMatch(s, i, fmt, j) ==
    IF j > Len(fmt) THEN [ok |-> TRUE, end |-> i, caps |-> <<>>]
    ELSE TryAlts(s, i, fmt, j, 1)

TryAlts(s, i, fmt, j, a) ==
    LET alts == DirectiveAlts(fmt[j]) IN
    IF a > Len(alts) THEN NoMatch
    ELSE IF FitsAt(s, i, alts[a])
         THEN LET n == Len(alts[a])
                  r == ReMatch(s, i + n, fmt, j + 1)
              IN  IF r.ok
                  THEN [ok |-> TRUE, end |-> r.end,
                        caps |-> <<SubSeq(s, i, i + n - 1)>> \o r.caps]
                  ELSE TryAlts(s, i, fmt, j, a + 1)
         ELSE TryAlts(s, i, fmt, j, a + 1)


(***************************************************************************)
(* State                                                                   *)
(***************************************************************************)
VARIABLES
    strftime_pads,    \* the platform's strftime writes %Y with four digits (a C
                      \* library writes the year 999 as "0999" or as "999")
    shift_days,       \* the offset in days
    date_format,      \* args.date_format
    \* one call of shift_date
    date_str,         \* its argument
    origin,           \* the date date_str was rendered from, or NoDate
    ret,              \* NotCalled, then what the call did: a value or an
                      \* exception (NoCall: there is no call)
    \* the scan and the replacement loop of process_file on one content
    content,          \* the decoded text of the file
    spans,            \* where the regular expression matched (start, len)
    dates,            \* re.findall's list
    idx,              \* the next element of dates the loop takes
    shifted_content,  \* the loop's text
    status,           \* "read", "loop", "done" or "raised" ("idle": no content)
    \* one run of main over a file system
    pc,               \* "start", "dispatch", "walk" or "done" ("idle": no run)
    args,             \* the command line
    files,            \* path -> [enc, readable, text]
    orig,             \* files as they were when the run began
    out_exists,       \* the output directory exists
    outfiles,         \* base name -> text, the files of the output directory
    queue,            \* os.walk's directories still to list
    pending,          \* the files of the directory listed, still to process
    attempted,        \* the paths process_file was called with
    processed,        \* path -> the text written for it ("Processed file")
    offsets           \* the offsets shift_date was called with

shiftVars == <<date_str, origin, ret>>
transVars == <<content, spans, dates, idx, shifted_content, status>>
runVars   == <<pc, args, files, orig, out_exists, outfiles, queue, pending,
               attempted, processed, offsets>>
vars == <<strftime_pads, shift_days, date_format, shiftVars, transVars, runVars>>

(***************************************************************************)
(* datetime.strptime, timedelta, strftime                                  *)
(***************************************************************************)
Return(v) == [exc |-> None, val |-> v]
Raise(e)  == [exc |-> e, val |-> <<>>]

HasTok(fmt, tok) == \E j \in 1..Len(fmt) : fmt[j] = tok
CapOf(fmt, caps, tok) == caps[CHOOSE j \in 1..Len(fmt) : fmt[j] = tok]

\* a two-digit year: 69..99 are 1969..1999, 00..68 are 2000..2068
Pivot(yy) == IF yy <= 68 THEN 2000 + yy ELSE 1900 + yy

\* int() of a %d capture, which may begin with a space
DayVal(cap) == IF cap[1] = " " THEN StrToNat(Tail(cap)) ELSE StrToNat(cap)

\* datetime.datetime.strptime(s, fmt): the whole of s must match, and the
\* fields must be a date of the calendar; else ValueError
Strptime(s, fmt) ==
    LET r == ReMatch(s, 1, fmt, 1) IN
    IF ~r.ok THEN Raise("ValueError")
    ELSE IF r.end # Len(s) + 1 THEN Raise("ValueError")
    ELSE LET year  == IF HasTok(fmt, "%Y") THEN StrToNat(CapOf(fmt, r.caps, "%Y"))
                      ELSE IF HasTok(fmt, "%y")
                           THEN Pivot(StrToNat(CapOf(fmt, r.caps, "%y")))
                           ELSE 1900
             month == IF HasTok(fmt, "%m") THEN StrToNat(CapOf(fmt, r.caps, "%m"))
                      ELSE 1
             day   == IF HasTok(fmt, "%d") THEN DayVal(CapOf(fmt, r.caps, "%d"))
                      ELSE 1
         IN  IF ValidDate(Date(year, month, day))
             THEN Return(Date(year, month, day))
             ELSE Raise("ValueError")

MaxDeltaDays == 999999999

\* AddDays with the sign of the offset lost
AddDaysBackwards(dt, k) ==
    LET n == ToOrdinal(dt) - k IN
    IF n < 1 \/ n > MaxOrdinal THEN Raise("OverflowError")
    ELSE Return(FromOrdinal(n))

\* date_obj + datetime.timedelta(days=k): OverflowError when the delta or the
\* sum is out of range
AddDays(dt, k) ==
    IF k < -MaxDeltaDays \/ k > MaxDeltaDays THEN Raise("OverflowError")
    ELSE LET n == ToOrdinal(dt) + k IN
         IF n < 1 \/ n > MaxOrdinal THEN Raise("OverflowError")
         ELSE Return(FromOrdinal(n))

StrftimeTok(dt, tok) ==
    CASE tok = "%Y" -> IF strftime_pads THEN Pad4(dt.year) ELSE NatToStr(dt.year)
      [] tok = "%y" -> Pad2(dt.year % 100)
      [] tok = "%m" -> Pad2(dt.month)
      [] tok = "%d" -> Pad2(dt.day)
      [] OTHER      -> <<tok>>

\* dt.strftime(fmt)
RECURSIVE Strftime(_, _)
Strftime(dt, fmt) ==
    IF fmt = <<>> THEN <<>>
    ELSE StrftimeTok(dt, Head(fmt)) \o Strftime(dt, Tail(fmt))

(***************************************************************************)
(* shift_date                                                              *)
(***************************************************************************)
\* shift_date without its except clause
shift_date_reraises(s, k, fmt) ==
    LET p == Strptime(s, fmt) IN
    IF p.exc # None THEN Raise(p.exc)
    ELSE LET a == AddDays(p.val, k) IN
         IF a.exc # None THEN Raise(a.exc)
         ELSE Return(Strftime(a.val, fmt))

\* the handler catches ValueError alone
shift_date(s, k, fmt) ==
    LET p == Strptime(s, fmt) IN
    IF p.exc = "ValueError" THEN Return(s)
    ELSE LET a == AddDays(p.val, k) IN
         IF a.exc # None THEN Raise(a.exc)
         ELSE Return(Strftime(a.val, fmt))

(***************************************************************************)
(* Inputs                                                                  *)
(***************************************************************************)
FmtISO == <<"%Y", "-", "%m", "-", "%d">>      \* "%Y-%m-%d", the default
FmtDMY == <<"%d", "-", "%m", "-", "%Y">>      \* "%d-%m-%Y"
FmtYMD2 == <<"%y", "-", "%m", "-", "%d">>     \* "%y-%m-%d"
FmtSlash == <<"%d", "/", "%m", "/", "%y">>    \* "%d/%m/%y"
Formats == {FmtISO, FmtDMY, FmtYMD2, FmtSlash}

MaxShift == 366
ShiftOffsets ==
    {-MaxShift, 1 - MaxShift, -31, -1, 0, 1, 10, 59, MaxShift - 1, MaxShift,
     MaxDeltaDays + 1}

SampleYears == {1, 999, 1000, 1900, 1968, 1969, 2023, 2024, 2068, 2069, 9999}
SampleDates ==
    {dt \in [year : SampleYears, month : {1, 2, 3, 12}, day : {1, 28, 29, 30, 31}] :
        ValidDate(dt)}

RawStrings ==
    { <<"2", "0", "2", "3", "-", "1", "3", "-", "4", "0">>,
      <<"2", "0", "2", "3", "-", "0", "2", "-", "3", "0">>,
      <<"2", "0", "2", "3", "-", "1", "-", "5">>,
      <<"2", "0", "2", "3", "-", "0", "1", "-", "1", "5", "x">>,
      <<"2", "0", "2", "3", "/", "0", "1", "/", "1", "5">>,
      <<"0", "0", "0", "0", "-", "0", "1", "-", "0", "1">>,
      <<"3", "1", "/", "1", "2", "/", "9", "9">>,
      <<"3", "1", "-", "1", "2", "-", "2", "0", "2", "3">>,
      <<"2", "9", "-", "0", "2", "-", "2", "0", "2", "3">>,
      <<"9", "9", "-", "9", "9", "-", "9", "9">>,
      <<"0", "0", "-", "0", "2", "-", "2", "9">>,
      <<"x">>,
      <<>> }

(***************************************************************************)
(* Calls of shift_date                                                     *)
(***************************************************************************)
IdleTrans ==
    /\ content = <<>> /\ spans = <<>> /\ dates = <<>> /\ idx = 0
    /\ shifted_content = <<>> /\ status = "idle"

IdleRun ==
    /\ pc = "idle" /\ args = None /\ files = <<>> /\ orig = <<>>
    /\ out_exists = FALSE /\ outfiles = <<>> /\ queue = <<>> /\ pending = {}
    /\ attempted = {} /\ processed = <<>> /\ offsets = {}

NoDate == Date(0, 0, 0)
NotCalled == [exc |-> "NotCalled", val |-> <<>>]

NoCall == [exc |-> "Idle", val |-> <<>>]

IdleShift == date_str = <<>> /\ origin = NoDate /\ ret = NoCall

InitShift ==
    /\ strftime_pads \in BOOLEAN
    /\ shift_days \in ShiftOffsets
    /\ date_format \in Formats
    /\ \/ /\ origin \in SampleDates
          /\ date_str = Strftime(origin, date_format)
       \/ /\ origin = NoDate
          /\ date_str \in RawStrings
    /\ ret = NotCalled
    /\ IdleTrans
    /\ IdleRun

CallShiftDate ==
    /\ ret = NotCalled
    /\ ret' = shift_date(date_str, shift_days, date_format)
    /\ UNCHANGED <<strftime_pads, shift_days, date_format, date_str, origin,
                   transVars, runVars>>

NextShift == CallShiftDate

SpecShift == InitShift /\ [][NextShift]_vars

(***************************************************************************)
(* Properties of shift_date (SpecShift)                                    *)
(***************************************************************************)
\* the calendar, a month at a time
FirstOfNextMonth(dt) ==
    IF dt.month < 12 THEN Date(dt.year, dt.month + 1, 1) ELSE Date(dt.year + 1, 1, 1)

LastOfPrevMonth(dt) ==
    IF dt.month > 1 THEN Date(dt.year, dt.month - 1, DaysInMonth(dt.year, dt.month - 1))
    ELSE Date(dt.year - 1, 12, 31)

\* the date k days from dt: within the month, or on from the month's edge
RECURSIVE StepDays(_, _)
StepDays(dt, k) ==
    LET left == DaysInMonth(dt.year, dt.month) - dt.day IN
    IF k >= 0
    THEN IF k <= left THEN Date(dt.year, dt.month, dt.day + k)
         ELSE StepDays(FirstOfNextMonth(dt), k - left - 1)
    ELSE IF -k < dt.day THEN Date(dt.year, dt.month, dt.day + k)
         ELSE StepDays(LastOfPrevMonth(dt), k + dt.day)

\* dt is expressible in fmt: its rendering reads back as dt
Expressible(dt, fmt) == Strptime(Strftime(dt, fmt), fmt) = Return(dt)

Called == ret.exc \notin {"NotCalled", "Idle"}

FromDate == origin # NoDate /\ Expressible(origin, date_format)

\* the date k days from dt is a date of datetime's calendar
InCalendar(dt, k) ==
    /\ k \in -MaxShift..MaxShift
    /\ StepDays(dt, k).year \in MINYEAR..MAXYEAR

TokLens(tok) == IF tok = "%Y" THEN {4} ELSE IF tok = "%y" THEN {2}
                ELSE IF tok \in {"%m", "%d"} THEN {1, 2} ELSE {1}

TokReads(tok, t) ==
    CASE tok \in {"%Y", "%y"} -> \A n \in 1..Len(t) : t[n] \in Digits
      [] tok = "%m" -> (\A n \in 1..Len(t) : t[n] \in Digits) /\ StrToNat(t) \in 1..12
      [] tok = "%d" -> \/ (\A n \in 1..Len(t) : t[n] \in Digits) /\ StrToNat(t) \in 1..31
                       \/ Len(t) = 2 /\ t[1] = " " /\ t[2] \in D19
      [] OTHER -> t = <<tok>>

RECURSIVE Readings(_, _, _, _)
Readings(s, i, fmt, j) ==
    IF j > Len(fmt) THEN (IF i = Len(s) + 1 THEN {<<>>} ELSE {})
    ELSE UNION { { <<SubSeq(s, i, i + n - 1)>> \o rest :
                       rest \in Readings(s, i + n, fmt, j + 1) } :
                 n \in {m \in TokLens(fmt[j]) :
                           /\ i + m - 1 <= Len(s)
                           /\ TokReads(fmt[j], SubSeq(s, i, i + m - 1))} }

ReadingDate(fmt, caps) ==
    Date(IF HasTok(fmt, "%Y") THEN StrToNat(CapOf(fmt, caps, "%Y"))
         ELSE Pivot(StrToNat(CapOf(fmt, caps, "%y"))),
         StrToNat(CapOf(fmt, caps, "%m")),
         DayVal(CapOf(fmt, caps, "%d")))

\* s, in its entirety, reads as a date of the calendar under fmt
StrictlyParses(s, fmt) ==
    \E caps \in Readings(s, 1, fmt, 1) : ValidDate(ReadingDate(fmt, caps))

\* C2: for every string x that does not strictly parse under the format in its
\* entirety, and every offset, shift_date returns x unchanged.
C2_UnparsableUnchanged ==
    (Called /\ ~StrictlyParses(date_str, date_format)) => ret = Return(date_str)

\* month 13, a day past the month's end, leftover text
C2_Witness ==
    /\ Called /\ shift_days # 0 /\ date_format = FmtISO
    /\ ~StrictlyParses(date_str, date_format)
    /\ date_str \in { <<"2", "0", "2", "3", "-", "1", "3", "-", "4", "0">>,
                      <<"2", "0", "2", "3", "-", "0", "2", "-", "3", "0">>,
                      <<"2", "0", "2", "3", "-", "0", "1", "-", "1", "5", "x">> }
    /\ ret = Return(date_str)

\* the model's strptime accepts exactly the strings that strictly parse
ParseAgrees ==
    StrictlyParses(date_str, date_format)
        <=> (Strptime(date_str, date_format).exc = None)

(***************************************************************************)
(* process_file: the scan and the replacement loop                         *)
(***************************************************************************)
Sep == {"/", "-"}

\* the pattern with its last two alternatives in the other order
date_pattern_short_first ==
    << <<Digits, Digits, Digits, Digits, {"-"}, Digits, Digits, {"-"}, Digits, Digits>>,
       <<Digits, Digits, Sep, Digits, Digits, Sep, Digits, Digits>>,
       <<Digits, Digits, Sep, Digits, Digits, Sep, Digits, Digits, Digits, Digits>> >>

\* \d{4}-\d{2}-\d{2}|\d{2}[/-]\d{2}[/-]\d{4}|\d{2}[/-]\d{2}[/-]\d{2}
date_pattern ==
    << <<Digits, Digits, Digits, Digits, {"-"}, Digits, Digits, {"-"}, Digits, Digits>>,
       <<Digits, Digits, Sep, Digits, Digits, Sep, Digits, Digits, Digits, Digits>>,
       <<Digits, Digits, Sep, Digits, Digits, Sep, Digits, Digits>> >>

\* the first alternative of pat, from a on, that fits at i; 0 if none does
RECURSIVE FirstAlt(_, _, _, _)
FirstAlt(pat, s, i, a) ==
    IF a > Len(pat) THEN 0
    ELSE IF FitsAt(s, i, pat[a]) THEN a
    ELSE FirstAlt(pat, s, i, a + 1)

\* the matches of pat in s from i on: the scan goes on after a match's end
RECURSIVE finditer(_, _, _)
finditer(pat, s, i) ==
    IF i > Len(s) THEN <<>>
    ELSE LET a == FirstAlt(pat, s, i, 1) IN
         IF a = 0 THEN finditer(pat, s, i + 1)
         ELSE <<[start |-> i, len |-> Len(pat[a])]>>
                  \o finditer(pat, s, i + Len(pat[a]))

\* the texts of the matches sp of s
MatchTexts(s, sp) ==
    [j \in 1..Len(sp) |-> SubSeq(s, sp[j].start, sp[j].start + sp[j].len - 1)]

\* re.findall(date_pattern, content)
findall(pat, s) == MatchTexts(s, finditer(pat, s, 1))

\* s.replace(old, new): every occurrence of old, left to right, none overlapping
RECURSIVE Replace(_, _, _)
Replace(s, old, new) ==
    IF Len(s) < Len(old) THEN s
    ELSE IF SubSeq(s, 1, Len(old)) = old
         THEN new \o Replace(SubSeq(s, Len(old) + 1, Len(s)), old, new)
         ELSE <<Head(s)>> \o Replace(Tail(s), old, new)

\* the loop over dates from its element i on: the text it ends with, or the
\* exception a call of shift_date let through
RECURSIVE ShiftLoop(_, _, _, _, _)
ShiftLoop(text, ds, i, k, fmt) ==
    IF i > Len(ds) THEN Return(text)
    ELSE LET r == shift_date(ds[i], k, fmt) IN
         IF r.exc # None THEN Raise(r.exc)
         ELSE ShiftLoop(Replace(text, ds[i], r.val), ds, i + 1, k, fmt)

MaxPieces == 3

Pieces ==
    {
      <<"2", "0", "2", "3", "-", "0", "1", "-", "1", "5">>,   \* "2023-01-15"
      <<"2", "0", "2", "3", "-", "0", "1", "-", "2", "5">>,   \* "2023-01-25"
      <<" ">>,   \* " "
      <<"0", "3", "-", "0", "1", "-", "0", "1">>,   \* "03-01-01"
      <<"-", "0", "4", " ">>,   \* "-04 "
      <<"0", "1", "-", "0", "2", "-", "0", "4">>,   \* "01-02-04"
      <<"9", "9", "9", "9", "-", "1", "2", "-", "3", "1">>,   \* "9999-12-31"
      <<"3", "1", "-", "1", "2", "-", "2", "0", "2", "3">>,   \* "31-12-2023"
      <<"2", "0", "2", "3", "-", "1", "3", "-", "4", "0">>    \* "2023-13-40"
    }

RECURSIVE Concat(_)
Concat(ss) == IF ss = <<>> THEN <<>> ELSE Head(ss) \o Concat(Tail(ss))

\* "start 2023-12-31 mid 31/12/99 end 31-12-2023 tail 2023-13-40 done"
ScanExample ==
    <<"s", "t", "a", "r", "t", " ", "2", "0", "2", "3", "-", "1", "2", "-",
      "3", "1", " ", "m", "i", "d", " ", "3", "1", "/", "1", "2", "/", "9",
      "9", " ", "e", "n", "d", " ", "3", "1", "-", "1", "2", "-", "2", "0",
      "2", "3", " ", "t", "a", "i", "l", " ", "2", "0", "2", "3", "-", "1",
      "3", "-", "4", "0", " ", "d", "o", "n", "e">>

\* "Meeting on 2023-01-15 and follow-up 2023-01-20."
MeetingExample ==
    <<"M", "e", "e", "t", "i", "n", "g", " ", "o", "n", " ", "2", "0", "2",
      "3", "-", "0", "1", "-", "1", "5", " ", "a", "n", "d", " ", "f", "o",
      "l", "l", "o", "w", "-", "u", "p", " ", "2", "0", "2", "3", "-", "0",
      "1", "-", "2", "0", ".">>

Contents ==
    {Concat(ss) : ss \in UNION {[1..n -> Pieces] : n \in 0..MaxPieces}}
        \cup {ScanExample, MeetingExample}

TransFormats == {FmtISO, FmtDMY, FmtYMD2}
TransOffsets == {-1, 1, 10}

InitTransform ==
    /\ strftime_pads \in BOOLEAN
    /\ shift_days \in TransOffsets
    /\ date_format \in TransFormats
    /\ content \in Contents
    /\ spans = <<>> /\ dates = <<>> /\ idx = 0
    /\ shifted_content = <<>>
    /\ status = "read"
    /\ IdleShift
    /\ IdleRun

\* dates = re.findall(date_pattern, content); shifted_content = content
FindDates ==
    /\ status = "read"
    /\ spans' = finditer(date_pattern, content, 1)
    /\ dates' = findall(date_pattern, content)
    /\ idx' = 1
    /\ shifted_content' = content
    /\ status' = "loop"
    /\ UNCHANGED <<strftime_pads, shift_days, date_format, content, shiftVars, runVars>>

\* one turn of the loop: shift_date, then replace
ShiftNext ==
    /\ status = "loop"
    /\ idx <= Len(dates)
    /\ LET r == shift_date(dates[idx], shift_days, date_format) IN
       IF r.exc # None
       THEN /\ status' = "raised"
            /\ UNCHANGED <<idx, shifted_content>>
       ELSE /\ shifted_content' = Replace(shifted_content, dates[idx], r.val)
            /\ idx' = idx + 1
            /\ UNCHANGED status
    /\ UNCHANGED <<strftime_pads, shift_days, date_format, content, spans, dates,
                   shiftVars, runVars>>

\* the loop is over: the text is written
LoopDone ==
    /\ status = "loop"
    /\ idx > Len(dates)
    /\ status' = "done"
    /\ UNCHANGED <<strftime_pads, shift_days, date_format, content, spans, dates,
                   idx, shifted_content, shiftVars, runVars>>

NextTransform == FindDates \/ ShiftNext \/ LoopDone

SpecTransform == InitTransform /\ [][NextTransform]_vars

(***************************************************************************)
(* Properties of the scan and the loop (SpecTransform)                     *)
(***************************************************************************)
DigitsAt(s, i, ps) == \A p \in ps : s[i + p] \in Digits

\* DDDD-DD-DD
Shape1(s, i) ==
    /\ i + 9 <= Len(s)
    /\ DigitsAt(s, i, {0, 1, 2, 3, 5, 6, 8, 9})
    /\ s[i + 4] = "-" /\ s[i + 7] = "-"

\* DD[/-]DD[/-]DDDD
Shape2(s, i) ==
    /\ i + 9 <= Len(s)
    /\ DigitsAt(s, i, {0, 1, 3, 4, 6, 7, 8, 9})
    /\ s[i + 2] \in {"/", "-"} /\ s[i + 5] \in {"/", "-"}

\* DD[/-]DD[/-]DD
Shape3(s, i) ==
    /\ i + 7 <= Len(s)
    /\ DigitsAt(s, i, {0, 1, 3, 4, 6, 7})
    /\ s[i + 2] \in {"/", "-"} /\ s[i + 5] \in {"/", "-"}

\* the length of the first shape, in the order 1, 2, 3, that fits at i; 0 if none
WinnerLen(s, i) ==
    IF Shape1(s, i) THEN 10 ELSE IF Shape2(s, i) THEN 10
    ELSE IF Shape3(s, i) THEN 8 ELSE 0

Covered(p) == \E j \in 1..Len(spans) : p \in spans[j].start..(spans[j].start + spans[j].len - 1)

Scanned == status # "read"

\* C3: the scanner returns exactly the non-overlapping matches of a left-to-right
\* scan in which, at each position, the first shape of the order DDDD-DD-DD,
\* DD[/-]DD[/-]DDDD, DD[/-]DD[/-]DD that fits wins; in order of position, once per
\* occurrence, valid date or not.
C3_ScanLeftmostOrdered ==
    Scanned =>
        /\ Len(dates) = Len(spans)
        /\ \A j \in 1..Len(spans) :
              /\ spans[j].start \in 1..Len(content)
              /\ spans[j].len > 0
              /\ spans[j].len = WinnerLen(content, spans[j].start)
              /\ dates[j] = SubSeq(content, spans[j].start,
                                   spans[j].start + spans[j].len - 1)
        /\ \A j \in 1..(Len(spans) - 1) :
              spans[j].start + spans[j].len <= spans[j + 1].start
        /\ \A p \in 1..Len(content) : ~Covered(p) => WinnerLen(content, p) = 0

\* the four matches of the example, the last no date of the calendar; and a text
\* whose two occurrences of one date are both returned
C3_Witness ==
    /\ Scanned
    /\ \/ /\ content = ScanExample
          /\ dates = << <<"2", "0", "2", "3", "-", "1", "2", "-", "3", "1">>,
                        <<"3", "1", "/", "1", "2", "/", "9", "9">>,
                        <<"3", "1", "-", "1", "2", "-", "2", "0", "2", "3">>,
                        <<"2", "0", "2", "3", "-", "1", "3", "-", "4", "0">> >>
       \/ /\ Len(dates) = 2 /\ dates[1] = dates[2]
          /\ ~StrictlyParses(dates[1], date_format)

\* the text of content between the match j - 1 and the match j (after the last
\* match for j = Len(spans) + 1)
Gap(j) ==
    LET from == IF j = 1 THEN 1 ELSE spans[j - 1].start + spans[j - 1].len
        to   == IF j > Len(spans) THEN Len(content) ELSE spans[j].start - 1
    IN  SubSeq(content, from, to)

\* out, from pos on, is the gaps j.. of content, kept as they are, with some
\* text in the place of each match
RECURSIVE GapsKept(_, _, _)
GapsKept(out, pos, j) ==
    LET g == Gap(j) IN
    /\ pos + Len(g) - 1 <= Len(out)
    /\ SubSeq(out, pos, pos + Len(g) - 1) = g
    /\ IF j > Len(spans) THEN pos + Len(g) - 1 = Len(out)
       ELSE \E l \in 0..Len(out) : GapsKept(out, pos + Len(g) + l, j + 1)

\* out, from pos on, has in the place of each match j.. that parses the
\* rendering of its date k days on (the text between the matches is not looked at)
RECURSIVE DatesShifted(_, _, _)
DatesShifted(out, pos, j) ==
    IF j > Len(spans) THEN pos + Len(Gap(j)) - 1 = Len(out)
    ELSE LET at == pos + Len(Gap(j))
             p  == Strptime(dates[j], date_format)
         IN  IF p.exc = None
             THEN LET x == Strftime(StepDays(p.val, shift_days), date_format) IN
                  /\ at + Len(x) - 1 <= Len(out)
                  /\ SubSeq(out, at, at + Len(x) - 1) = x
                  /\ DatesShifted(out, at + Len(x), j + 1)
             ELSE \E l \in 0..Len(out) : DatesShifted(out, at + l, j + 1)

\* C4: the transformed content has every scanned candidate that parses strictly
\* under the format replaced by the rendering of its date shifted by exactly
\* shift_days days; no parsed date ends up shifted by another amount.
C4_EveryDateShiftedByK ==
    status = "done" => DatesShifted(shifted_content, 1, 1)

\* C5: every character of the content outside the spans the scanner matched is
\* the same, and in the same relative place, in the transformed content.
C5_NonDateTextKept ==
    status = "done" => GapsKept(shifted_content, 1, 1)

\* C9: shift_date never raises to its caller, so the loop of process_file gets
\* to its end for every content, offset and format.
C9_ShiftDateNeverRaises == status # "raised"

(***************************************************************************)
(* main, process_directory and process_file over a file system             *)
(*                                                                         *)
(* The tree is in/a.txt, in/b.txt and in/sub/a.txt; a file is its detected *)
(* encoding (None when chardet finds none), whether open() can read it,    *)
(* and its text.  The output directory, when one is named, is "out".       *)
(***************************************************************************)
InDir == "in"
SubDir == "in/sub"
FileA == "in/a.txt"
FileB == "in/b.txt"
FileSubA == "in/sub/a.txt"
Missing == "nope"
OutDir == "out"

\* os.path.basename
Basename(p) == IF p = FileB THEN "b.txt" ELSE "a.txt"

\* the directory a file is in
Dirname(p) == IF p = FileSubA THEN SubDir ELSE InDir

IsFile(p) == p \in DOMAIN files
IsDir(p) == p \in {InDir, SubDir}
Exists(p) == IsFile(p) \/ IsDir(p)

\* what os.walk yields for a directory: its files, and its subdirectories
FilesOf(d) == {p \in DOMAIN files : Dirname(p) = d}
SubdirsOf(d) == IF d = InDir THEN <<SubDir>> ELSE <<>>

TextA == <<"2", "0", "2", "3", "-", "0", "1", "-", "1", "5">>
TextB == <<"2", "0", "2", "3", "-", "0", "1", "-", "2", "0", " ", "x">>
TextSub == <<"2", "0", "2", "3", "-", "0", "3", "-", "0", "1">>
TextLast == <<"9", "9", "9", "9", "-", "1", "2", "-", "3", "1">>

GoodFile(t) == [enc |-> "utf-8", readable |-> TRUE, text |-> t]

KindsOfA ==
    { GoodFile(TextA),
      GoodFile(TextLast),
      [enc |-> None, readable |-> TRUE, text |-> TextA],
      [enc |-> "utf-8", readable |-> FALSE, text |-> TextA] }

FileSystems ==
    { (FileA :> a) @@ (FileB :> GoodFile(TextB)) @@ sub :
        a \in KindsOfA,
        sub \in { <<>>, (FileSubA :> GoodFile(TextSub)) } }

\* random.randint(-365, 365)
RandMax == 365
RandomShiftWide == (-RandMax - 1)..(RandMax + 1)
RandomShift == (-RandMax)..RandMax

GivenShifts == {-1, 10}

CommandLines ==
    [ input_path : {InDir, FileA, Missing},
      shift_days : {<<>>} \cup {<<k>> : k \in GivenShifts},
      output_path : {None, OutDir},
      recursive : BOOLEAN ]

InitRun ==
    /\ strftime_pads = TRUE
    /\ shift_days = 0
    /\ date_format = FmtISO
    /\ args \in CommandLines
    /\ files \in FileSystems
    /\ orig = files
    /\ out_exists \in (IF args.output_path = None THEN {FALSE} ELSE BOOLEAN)
    /\ outfiles = <<>>
    /\ queue = <<>>
    /\ pending = {}
    /\ attempted = {}
    /\ processed = <<>>
    /\ offsets = {}
    /\ pc = "start"
    /\ IdleShift
    /\ IdleTrans

\* process_file without its check of the encoding
EncodingAssumed(f) == FALSE

\* chardet.detect(rawdata)['encoding'] is None
EncodingUnknown(f) == f.enc = None

\* what process_file(p, k, output_path, fmt) does: whether it wrote, where and
\* what, and whether shift_date was called.  Any exception ends it with
\* nothing written.
process_file(p, k, output_path, fmt) ==
    LET f  == files[p]
        ds == findall(date_pattern, f.text)
        r  == ShiftLoop(f.text, ds, 1, k, fmt)
        nothing == [wrote |-> FALSE, dst |-> None, text |-> <<>>, called |-> FALSE]
    IN  IF ~f.readable THEN nothing
        ELSE IF EncodingUnknown(f) THEN nothing
        ELSE IF r.exc # None THEN [nothing EXCEPT !.called = TRUE]
        ELSE IF output_path # None /\ ~out_exists
             THEN [nothing EXCEPT !.called = ds # <<>>]
        ELSE [wrote |-> TRUE,
              dst |-> IF output_path # None THEN Basename(p) ELSE p,
              text |-> r.val,
              called |-> ds # <<>>]

\* the state after a call of process_file on p that did e
Processed(p, e) ==
    /\ attempted' = attempted \cup {p}
    /\ offsets' = IF e.called THEN offsets \cup {shift_days} ELSE offsets
    /\ processed' = IF e.wrote
                    THEN (p :> [dst |-> e.dst, text |-> e.text]) @@ processed
                    ELSE processed
    /\ outfiles' = IF e.wrote /\ args.output_path # None
                   THEN (e.dst :> e.text) @@ outfiles
                   ELSE outfiles
    /\ files' = IF e.wrote /\ args.output_path = None
                THEN [files EXCEPT ![p].text = e.text]
                ELSE files

\* main up to its dispatch: the input path is checked and the offset is fixed
Main ==
    /\ pc = "start"
    /\ IF ~Exists(args.input_path)
       THEN pc' = "done" /\ UNCHANGED shift_days
       ELSE /\ pc' = "dispatch"
            /\ IF args.shift_days = <<>>
               THEN shift_days' \in RandomShift
               ELSE shift_days' = args.shift_days[1]
    /\ UNCHANGED <<strftime_pads, date_format, shiftVars, transVars, args, files,
                   orig, out_exists, outfiles, queue, pending, attempted,
                   processed, offsets>>

\* os.path.isfile(input_path): process_file(input_path, ...)
RunFile ==
    /\ pc = "dispatch"
    /\ IsFile(args.input_path)
    /\ Processed(args.input_path,
                 process_file(args.input_path, shift_days, args.output_path,
                              date_format))
    /\ pc' = "done"
    /\ UNCHANGED <<strftime_pads, shift_days, date_format, shiftVars, transVars,
                   args, orig, out_exists, queue, pending>>

\* os.path.isdir(input_path): process_directory makes the output directory and
\* starts the walk
EnterDirectory ==
    /\ pc = "dispatch"
    /\ IsDir(args.input_path)
    /\ out_exists' = (out_exists \/ args.output_path # None)
    /\ queue' = <<args.input_path>>
    /\ pc' = "walk"
    /\ UNCHANGED <<strftime_pads, shift_days, date_format, shiftVars, transVars,
                   args, files, orig, outfiles, pending, attempted, processed,
                   offsets>>

\* os.walk yields the next directory; without --recursive the loop breaks after
\* the first
WalkNext ==
    /\ pc = "walk"
    /\ pending = {}
    /\ queue # <<>>
    /\ pending' = FilesOf(Head(queue))
    /\ queue' = IF args.recursive THEN SubdirsOf(Head(queue)) \o Tail(queue) ELSE <<>>
    /\ UNCHANGED <<strftime_pads, shift_days, date_format, shiftVars, transVars,
                   pc, args, files, orig, out_exists, outfiles, attempted,
                   processed, offsets>>

\* the next file of the directory, in the order the platform lists them
ProcessNext ==
    /\ pc = "walk"
    /\ \E p \in pending :
          /\ Processed(p, process_file(p, shift_days, args.output_path,
                                       date_format))
          /\ pending' = pending \ {p}
    /\ UNCHANGED <<strftime_pads, shift_days, date_format, shiftVars, transVars,
                   pc, args, orig, out_exists, queue>>

WalkDone ==
    /\ pc = "walk"
    /\ pending = {}
    /\ queue = <<>>
    /\ pc' = "done"
    /\ UNCHANGED <<strftime_pads, shift_days, date_format, shiftVars, transVars,
                   args, files, orig, out_exists, outfiles, queue, pending,
                   attempted, processed, offsets>>

NextRun == Main \/ RunFile \/ EnterDirectory \/ WalkNext \/ ProcessNext \/ WalkDone

SpecRun == InitRun /\ [][NextRun]_vars

(***************************************************************************)
(* Properties of a run (SpecRun)                                           *)
(***************************************************************************)
\* main got past its check of the input path, and so fixed the offset
OffsetFixed == pc # "start" /\ Exists(args.input_path)

\* C6: one offset is fixed before any file is processed and that value is passed
\* to every shift_date call of the run; drawn, it lies in [-365, 365]; it is
\* never drawn again per file or per date.
C6_OneOffsetPerRun ==
    /\ pc = "start" => (attempted = {} /\ offsets = {})
    /\ offsets \subseteq {shift_days}
    /\ (OffsetFixed /\ args.shift_days = <<>>) =>
           (shift_days >= -RandMax /\ shift_days <= RandMax)
    /\ (OffsetFixed /\ args.shift_days # <<>>) => shift_days = args.shift_days[1]

\* a drawn offset at an end of the range, used for the dates of three files
C6_Witness ==
    /\ pc = "done"
    /\ args.shift_days = <<>>
    /\ shift_days = -RandMax
    /\ offsets = {shift_days}
    /\ DOMAIN processed = {FileA, FileB, FileSubA}

\* the text process_file has to write for p
Expected(p) ==
    ShiftLoop(orig[p].text, findall(date_pattern, orig[p].text), 1, shift_days,
              date_format)

\* p can be read and decoded, and none of its dates makes shift_date raise
Sound(p) == orig[p].readable /\ orig[p].enc # None /\ Expected(p).exc = None

\* the files os.walk comes to
WalkSet == IF args.recursive THEN DOMAIN orig ELSE {p \in DOMAIN orig : Dirname(p) = InDir}

\* C7: whenever an output path is given, for a file as for a directory, the output
\* directory is made if it is missing and the transformed files are written there.
C7_OutputDirCreated ==
    (pc = "done" /\ args.output_path # None /\ Exists(args.input_path)) =>
        /\ out_exists
        /\ \A p \in attempted :
              Sound(p) => (p \in DOMAIN processed /\ Basename(p) \in DOMAIN outfiles)

\* C8: in a directory run a file that fails is skipped: with no encoding detected
\* nothing is written for it and it is left as it was; and every other file of the
\* batch is still processed to its end.
C8_FailureSkipsOneFile ==
    (pc = "done" /\ IsDir(args.input_path)) =>
        /\ attempted = WalkSet
        /\ \A p \in attempted :
              /\ (orig[p].readable /\ orig[p].enc = None) =>
                     (p \notin DOMAIN processed /\ files[p] = orig[p])
              /\ Sound(p) =>
                     (p \in DOMAIN processed /\ processed[p].text = Expected(p).val)

\* the encoding of one file of the batch is not detected, and the others are
\* written
C8_Witness ==
    /\ pc = "done" /\ IsDir(args.input_path) /\ args.recursive
    /\ ~Sound(FileA)
    /\ orig[FileA].enc = None
    /\ DOMAIN processed = {FileB, FileSubA}

\* C10: after a run with an output directory every file processed without error
\* has its own transformed content in the output directory under its base name.
C10_EveryOutputPresent ==
    (pc = "done" /\ args.output_path # None) =>
        \A p \in DOMAIN processed :
            /\ Basename(p) \in DOMAIN outfiles
            /\ outfiles[Basename(p)] = processed[p].text

(***************************************************************************)
(* The three together                                                      *)
(***************************************************************************)
Init == InitShift \/ InitTransform \/ InitRun

Next == NextShift \/ NextTransform \/ NextRun

Spec == Init /\ [][Next]_vars

=============================================================================
